---- MODULE Spec2Model ----
(***************************************************************************)
(* Join protocol of the tournament app: joinTournament, requestWithdrawal, *)
(* saveUserProfile (user panel) and the block/unblock handler (admin       *)
(* panel), over a Firebase Realtime Database.  A database transaction is   *)
(* modelled as an optimistic compare-and-set: the update function runs on  *)
(* a snapshot of the path, and the result is written only if the path      *)
(* still holds that snapshot; otherwise the update function runs again.    *)
(***************************************************************************)
EXTENDS Integers, Sequences, FiniteSets, TLC

\* ------------------------------------------------------------------ bounds
NJoin == 2
NWd == 1
MaxSlots == 1

JoinIds == 1..NJoin
WdIds == 1..NWd
Users == {"A", "B"}
TIds == {"t1", "t2"}
\* amounts typed into the withdrawal form (0: the rejected input)
WithdrawAmounts == {0, 50, 100}

\* ------------------------------------------------------- JavaScript values
\* an absent (undefined / null) number
NULL == -1

\* v || d
Or(v, d) == IF v = NULL \/ v = 0 THEN d ELSE v

\* a >= b, false as soon as one side is undefined
JsGE(a, b) == a # NULL /\ b # NULL /\ a >= b

\* JsLT that never holds
JsLTNever(a, b) == FALSE

\* a < b, false as soon as one side is undefined
JsLT(a, b) == a # NULL /\ b # NULL /\ a < b

\* ------------------------------------------------------------ store values
NoUser == [exists |-> FALSE, isBlocked |-> FALSE, balance |-> NULL]
NoTournament == [exists |-> FALSE, joinedCount |-> NULL, maxSlots |-> NULL, entryFee |-> NULL]
NoWithdrawal == [exists |-> FALSE, uid |-> "", amount |-> 0, fee |-> 0, status |-> ""]

IdleJoin == [pc |-> "idle", uid |-> "", tid |-> "", fee |-> NULL, snapT |-> NoTournament,
             snapN |-> NULL, toast |-> "", inc |-> 0, paid |-> 0, wrote |-> FALSE,
             notFound |-> FALSE]
IdleWd == [pc |-> "idle", uid |-> "", amount |-> 0, fee |-> 0, snapN |-> NULL,
           toast |-> "", paid |-> 0]

VARIABLES users, tournaments, tournamentJoins, walletHistory, withdrawals,
          appSettings, join, wd

vars == <<users, tournaments, tournamentJoins, walletHistory, withdrawals,
          appSettings, join, wd>>

store == <<users, tournaments, tournamentJoins, walletHistory, withdrawals, appSettings>>

\* ------------------------------------------------------------------- Init
InitUsers ==
  {[u \in Users |-> IF u = "A" THEN [exists |-> TRUE, isBlocked |-> FALSE, balance |-> 250] ELSE b] :
     b \in {NoUser, [exists |-> TRUE, isBlocked |-> FALSE, balance |-> 150]}}

\* the entry fee of both tournaments, and of the cards rendered from them
CardFee == 100

OpenTournament(n) == [exists |-> TRUE, joinedCount |-> 0, maxSlots |-> n, entryFee |-> CardFee]

\* t1 is open with MaxSlots slots; t2 is open with one slot more, or its record
\* has been removed from the store since its card was rendered
InitTournaments ==
  {[t \in TIds |-> IF t = "t1" THEN OpenTournament(MaxSlots) ELSE r] :
     r \in {OpenTournament(MaxSlots + 1), NoTournament}}

Init ==
  /\ users \in InitUsers
  /\ tournaments \in InitTournaments
  /\ tournamentJoins = {}
  /\ walletHistory = [u \in Users |-> <<>>]
  /\ withdrawals = [w \in WdIds |-> NoWithdrawal]
  /\ appSettings = [minWithdraw |-> 100, withdrawFeePercent |-> 2]
  /\ join = [a \in JoinIds |-> IdleJoin]
  /\ wd = [w \in WdIds |-> IdleWd]

\* ------------------------------------------------------ update functions
\* ReserveUpdate without the capacity check
ReserveUpdateNoCheck(curr) ==
  IF curr.exists
    THEN [abort |-> FALSE, val |-> [curr EXCEPT !.joinedCount = Or(@, 0) + 1]]
    ELSE [abort |-> FALSE, val |-> curr]

\* ReserveUpdate with the capacity check off by one (> for >=)
ReserveUpdateOffByOne(curr) ==
  IF curr.exists
    THEN IF JsGE(curr.joinedCount, curr.maxSlots + 1)
           THEN [abort |-> TRUE, val |-> curr]
           ELSE [abort |-> FALSE, val |-> [curr EXCEPT !.joinedCount = Or(@, 0) + 1]]
    ELSE [abort |-> FALSE, val |-> curr]

\* first transaction of joinTournament; abort: the function returned undefined
ReserveUpdate(curr) ==
  IF curr.exists
    THEN IF JsGE(curr.joinedCount, curr.maxSlots)
           THEN [abort |-> TRUE, val |-> curr]
           ELSE [abort |-> FALSE, val |-> [curr EXCEPT !.joinedCount = Or(@, 0) + 1]]
    ELSE [abort |-> FALSE, val |-> curr]

\* DebitUpdate without the sufficient-funds check
DebitUpdateNoGuard(bal, fee) == [abort |-> FALSE, val |-> Or(bal, 0) - fee]

\* DebitUpdate taking the fee twice
DebitUpdateTwice(bal, fee) ==
  IF JsGE(Or(bal, 0), fee)
    THEN [abort |-> FALSE, val |-> Or(bal, 0) - 2 * fee]
    ELSE [abort |-> TRUE, val |-> bal]

\* second transaction of joinTournament, on users/{uid}/wallet/balance
DebitUpdate(bal, fee) ==
  IF JsGE(Or(bal, 0), fee)
    THEN [abort |-> FALSE, val |-> Or(bal, 0) - fee]
    ELSE [abort |-> TRUE, val |-> bal]

\* the revert transaction, on tournaments/{tId}/joinedCount
ReleaseUpdate(c) == Or(c, 1) - 1

\* WithdrawUpdate without the sufficient-funds check
WithdrawUpdateNoGuard(bal, amount) == [abort |-> FALSE, val |-> Or(bal, 0) - amount]

\* the transaction of requestWithdrawal, on users/{uid}/wallet/balance
WithdrawUpdate(bal, amount) ==
  IF JsGE(Or(bal, 0), amount)
    THEN [abort |-> FALSE, val |-> Or(bal, 0) - amount]
    ELSE [abort |-> TRUE, val |-> bal]

\* a write to users/{uid}/wallet/balance (it creates the path when absent)
SetBalance(us, u, b) ==
  [us EXCEPT ![u] = [exists |-> TRUE, isBlocked |-> @.isBlocked, balance |-> b]]

\* a write to tournaments/{tId}/joinedCount (it creates the path when absent)
SetJoinedCount(ts, t, c) ==
  [ts EXCEPT ![t] = [@ EXCEPT !.exists = TRUE, !.joinedCount = c]]

\* joinedCount as a number: an absent field counts for nothing
Count(rec) == IF rec.joinedCount = NULL THEN 0 ELSE rec.joinedCount

\* --------------------------------------------------------- joinTournament
\* transaction(update, onComplete) runs update at once on the client's copy of
\* the path, which the app's value listeners keep current; an undefined result
\* ends the transaction there, uncommitted.  Otherwise the store compares and
\* sets: a path changed meanwhile makes update run again on the new value.

Finish(j, msg) == [j EXCEPT !.pc = "done", !.toast = msg,
                            !.snapT = NoTournament, !.snapN = NULL]

\* the click on a card's Join button: joinTournament(tId, t), entryFee the
\* t.entryFee of the card, rendered from an earlier snapshot of the tournament
JoinClick(a, u, t, entryFee) ==
  /\ join[a].pc = "idle"
  /\ IF a = 1 THEN TRUE ELSE join[a - 1].pc # "idle"
  /\ join' = [join EXCEPT ![a].pc = "fetch", ![a].uid = u, ![a].tid = t,
                          ![a].fee = entryFee]
  /\ UNCHANGED <<store, wd>>

\* StartReserve that keeps the snapshot of the previous run
StartReserveStale(j, curr) ==
  IF ReserveUpdate(curr).abort
    THEN Finish(j, "Slots are full.")
    ELSE [j EXCEPT !.pc = "reserve"]

\* tournamentRef.transaction(...) is called: update runs on curr
StartReserve(j, curr) ==
  IF ReserveUpdate(curr).abort
    THEN Finish(j, "Slots are full.")
    ELSE [j EXCEPT !.pc = "reserve", !.snapT = curr]

\* the revert transaction is issued (its update never aborts), then the toast
StartRelease(j, c) ==
  [j EXCEPT !.pc = "release", !.snapN = c, !.snapT = NoTournament,
            !.toast = "Unable to deduct fee."]

\* StartDebit that goes to the membership write without waiting for the debit
StartDebitNoWait(j, bal, c) == [j EXCEPT !.pc = "record", !.snapT = NoTournament]

\* walletRef.transaction(...) is called: update runs on bal; c is the
\* tournament's joinedCount at that moment
StartDebit(j, bal, c) ==
  IF DebitUpdate(bal, j.fee).abort
    THEN StartRelease(j, c)
    ELSE [j EXCEPT !.pc = "debit", !.snapN = bal, !.snapT = NoTournament]

\* once('value') on users/{uid} resolves: the eligibility checks, then the
\* first transaction is started
JoinFetchUser(a) ==
  /\ join[a].pc = "fetch"
  /\ LET userData == users[join[a].uid]
         balance == Or(userData.balance, 0)
     IN join' = [join EXCEPT ![a] =
          IF ~userData.exists THEN Finish(@, "Profile not set up.")
          ELSE IF userData.isBlocked THEN Finish(@, "You are blocked.")
          ELSE IF JsLT(balance, @.fee) THEN Finish(@, "Insufficient wallet balance.")
          ELSE StartReserve(@, tournaments[@.tid])]
  /\ UNCHANGED <<store, wd>>

\* once('value') rejects: the promise has no catch, the attempt ends silently
JoinFetchError(a) ==
  /\ join[a].pc = "fetch"
  /\ join' = [join EXCEPT ![a] = Finish(@, "")]
  /\ UNCHANGED <<store, wd>>

\* the store answers the reservation: committed (the completion callback starts
\* the debit), or the record has changed and update runs again
ReserveCommit(a) ==
  /\ join[a].pc = "reserve"
  /\ LET t == join[a].tid
         curr == join[a].snapT
         val == ReserveUpdate(curr).val
     IN IF tournaments[t] = curr
          THEN /\ tournaments' = [tournaments EXCEPT ![t] = val]
               /\ join' = [join EXCEPT ![a] =
                    StartDebit([@ EXCEPT !.inc = Count(val) - Count(curr),
                                         !.notFound = ~curr.exists],
                               users[@.uid].balance, val.joinedCount)]
          ELSE /\ join' = [join EXCEPT ![a] = StartReserve(@, tournaments[t])]
               /\ UNCHANGED tournaments
  /\ UNCHANGED <<users, tournamentJoins, walletHistory, withdrawals, appSettings, wd>>

\* the reservation ends with an error: nothing is written
ReserveError(a) ==
  /\ join[a].pc = "reserve"
  /\ join' = [join EXCEPT ![a] = Finish(@, "Error joining tournament.")]
  /\ UNCHANGED <<store, wd>>

\* the store answers the debit: committed (the callback issues the membership
\* write and shows the success toast), or the balance has changed and update
\* runs again
DebitCommit(a) ==
  /\ join[a].pc = "debit"
  /\ LET u == join[a].uid
         bal == join[a].snapN
         val == DebitUpdate(bal, join[a].fee).val
     IN IF users[u].balance = bal
          THEN /\ users' = SetBalance(users, u, val)
               /\ join' = [join EXCEPT ![a].pc = "record", ![a].snapN = NULL,
                                       ![a].paid = Or(bal, 0) - val,
                                       ![a].toast = "Joined successfully!"]
          ELSE /\ join' = [join EXCEPT ![a] =
                    StartDebit(@, users[u].balance, tournaments[@.tid].joinedCount)]
               /\ UNCHANGED users
  /\ UNCHANGED <<tournaments, tournamentJoins, walletHistory, withdrawals, appSettings, wd>>

\* the debit ends with an error: nothing is written, the revert is issued
DebitError(a) ==
  /\ join[a].pc = "debit"
  /\ join' = [join EXCEPT ![a] = StartRelease(@, tournaments[@.tid].joinedCount)]
  /\ UNCHANGED <<store, wd>>

\* the store answers the revert: committed, or joinedCount has changed and
\* update runs again.  The revert has no completion callback.
ReleaseCommit(a) ==
  /\ join[a].pc = "release"
  /\ LET t == join[a].tid
         c == join[a].snapN
     IN IF tournaments[t].joinedCount = c
          THEN /\ tournaments' = SetJoinedCount(tournaments, t, ReleaseUpdate(c))
               /\ join' = [join EXCEPT ![a].pc = "done", ![a].snapN = NULL,
                                       ![a].inc = @ + ReleaseUpdate(c) - Or(c, 0)]
          ELSE /\ join' = [join EXCEPT ![a].snapN = tournaments[t].joinedCount]
               /\ UNCHANGED tournaments
  /\ UNCHANGED <<users, tournamentJoins, walletHistory, withdrawals, appSettings, wd>>

\* the revert ends with an error: nothing is written and nothing retries it
ReleaseError(a) ==
  /\ join[a].pc = "release"
  /\ join' = [join EXCEPT ![a].pc = "done", ![a].snapN = NULL]
  /\ UNCHANGED <<store, wd>>

\* the store answers joinPath.set(...); ok: it accepted the write
RecordMembership(a, ok) ==
  /\ join[a].pc = "record"
  /\ tournamentJoins' = IF ok THEN tournamentJoins \cup {<<join[a].tid, join[a].uid>>}
                              ELSE tournamentJoins
  /\ join' = [join EXCEPT ![a].pc = "done", ![a].wrote = ok]
  /\ UNCHANGED <<users, tournaments, walletHistory, withdrawals, appSettings, wd>>

\* ------------------------------------------------------ requestWithdrawal
\* WithdrawFee rounding down
WithdrawFeeFloor(amount, feePercent) == (amount * feePercent) \div 100

\* Math.ceil(amount * feePercent / 100), on integers
WithdrawFee(amount, feePercent) == (amount * feePercent + 99) \div 100

FinishWd(r, msg) == [r EXCEPT !.pc = "done", !.toast = msg, !.snapN = NULL]

\* the click on the withdraw button with amount typed in the form
WithdrawClick(w, u, amount) ==
  /\ wd[w].pc = "idle"
  /\ IF w = 1 THEN TRUE ELSE wd[w - 1].pc # "idle"
  /\ wd' = IF amount <= 0
             THEN [wd EXCEPT ![w].pc = "done", ![w].uid = u, ![w].toast = "Enter valid amount."]
             ELSE [wd EXCEPT ![w].pc = "settings", ![w].uid = u, ![w].amount = amount]
  /\ UNCHANGED <<store, join>>

\* the balance transaction is called: update runs on bal
StartWithdrawDebit(r, bal) ==
  IF WithdrawUpdate(bal, r.amount).abort
    THEN FinishWd(r, "Insufficient balance.")
    ELSE [r EXCEPT !.pc = "debit", !.snapN = bal]

\* once('value') on appSettings resolves: the minimum check, the fee, then the
\* transaction is started
WithdrawSettings(w) ==
  /\ wd[w].pc = "settings"
  /\ LET min == Or(appSettings.minWithdraw, 0)
         feePercent == Or(appSettings.withdrawFeePercent, 0)
     IN wd' = [wd EXCEPT ![w] =
          IF @.amount < min
            THEN FinishWd(@, "Minimum withdraw")
            ELSE StartWithdrawDebit([@ EXCEPT !.fee = WithdrawFee(wd[w].amount, feePercent)],
                                    users[@.uid].balance)]
  /\ UNCHANGED <<store, join>>

\* once('value') rejects: the promise has no catch, the request ends silently
WithdrawSettingsError(w) ==
  /\ wd[w].pc = "settings"
  /\ wd' = [wd EXCEPT ![w] = FinishWd(@, "")]
  /\ UNCHANGED <<store, join>>

\* the store answers the debit: committed (the callback issues the withdrawal
\* record and shows the toast), or the balance has changed and update runs again
WithdrawDebitCommit(w) ==
  /\ wd[w].pc = "debit"
  /\ LET u == wd[w].uid
         bal == wd[w].snapN
         val == WithdrawUpdate(bal, wd[w].amount).val
     IN IF users[u].balance = bal
          THEN /\ users' = SetBalance(users, u, val)
               /\ wd' = [wd EXCEPT ![w].pc = "record", ![w].snapN = NULL,
                                   ![w].paid = Or(bal, 0) - val,
                                   ![w].toast = "Withdraw requested."]
          ELSE /\ wd' = [wd EXCEPT ![w] = StartWithdrawDebit(@, users[u].balance)]
               /\ UNCHANGED users
  /\ UNCHANGED <<tournaments, tournamentJoins, walletHistory, withdrawals, appSettings, join>>

\* the transaction ends with an error: nothing is written
WithdrawDebitError(w) ==
  /\ wd[w].pc = "debit"
  /\ wd' = [wd EXCEPT ![w] = FinishWd(@, "Insufficient balance.")]
  /\ UNCHANGED <<store, join>>

\* the store answers db.ref('withdrawals').push().set(...); ok: it accepted the write
WithdrawRecord(w, ok) ==
  /\ wd[w].pc = "record"
  /\ withdrawals' = IF ok
       THEN [withdrawals EXCEPT ![w] = [exists |-> TRUE, uid |-> wd[w].uid,
               amount |-> wd[w].amount, fee |-> wd[w].fee, status |-> "pending"]]
       ELSE withdrawals
  /\ wd' = [wd EXCEPT ![w].pc = "done"]
  /\ UNCHANGED <<users, tournaments, tournamentJoins, walletHistory, appSettings, join>>

\* --------------------------------------------------------- saveUserProfile
\* what ref.set({...}) writes at users/{uid}
NewProfile == [exists |-> TRUE, isBlocked |-> FALSE, balance |-> 0]

\* the profile form is submitted with name and phone filled in
saveUserProfile(u) ==
  /\ users' = [users EXCEPT ![u] = NewProfile]
  /\ UNCHANGED <<tournaments, tournamentJoins, walletHistory, withdrawals, appSettings,
                 join, wd>>

\* ------------------------------------------------ admin: block / unblock
\* ToggleBlock writing the whole user record, wallet reset
ToggleBlockWholeRecord(u) ==
  /\ users[u].exists
  /\ users' = [users EXCEPT ![u] = [NewProfile EXCEPT !.isBlocked = ~users[u].isBlocked]]
  /\ UNCHANGED <<tournaments, tournamentJoins, walletHistory, withdrawals, appSettings,
                 join, wd>>

\* the click handler of a user card: set(users/{uid}/isBlocked, !u.isBlocked)
ToggleBlock(u) ==
  /\ users[u].exists
  /\ users' = [users EXCEPT ![u].isBlocked = ~@]
  /\ UNCHANGED <<tournaments, tournamentJoins, walletHistory, withdrawals, appSettings,
                 join, wd>>

\* ------------------------------------------------------------------- Next
JoinStep(a) ==
  \/ \E u \in Users, t \in TIds : JoinClick(a, u, t, CardFee)
  \/ JoinFetchUser(a)
  \/ ReserveCommit(a)
  \/ DebitCommit(a)
  \/ ReleaseCommit(a)
  \/ RecordMembership(a, TRUE)

JoinFault(a) ==
  \/ JoinFetchError(a)
  \/ ReserveError(a)
  \/ DebitError(a)
  \/ ReleaseError(a)
  \/ RecordMembership(a, FALSE)

WithdrawStep(w) ==
  \/ \E u \in Users, amount \in WithdrawAmounts : WithdrawClick(w, u, amount)
  \/ WithdrawSettings(w)
  \/ WithdrawDebitCommit(w)
  \/ WithdrawRecord(w, TRUE)

WithdrawFault(w) ==
  \/ WithdrawSettingsError(w)
  \/ WithdrawDebitError(w)
  \/ WithdrawRecord(w, FALSE)

Next ==
  \/ \E a \in JoinIds : JoinStep(a)
  \/ \E a \in JoinIds : JoinFault(a)
  \/ \E w \in WdIds : WithdrawStep(w)
  \/ \E w \in WdIds : WithdrawFault(w)
  \/ \E u \in Users : saveUserProfile(u)
  \/ \E u \in Users : ToggleBlock(u)

Spec == Init /\ [][Next]_vars

\* joins only, the store answering or failing
NextJoinFault ==
  \/ \E a \in JoinIds : JoinStep(a)
  \/ \E a \in JoinIds : JoinFault(a)

SpecJoinFault == Init /\ [][NextJoinFault]_vars

\* the joins and withdrawals of one user, with a store that answers every request
NextOneUser ==
  \/ \E a \in JoinIds, t \in TIds : JoinClick(a, "A", t, CardFee)
  \/ \E a \in JoinIds : JoinFetchUser(a) \/ ReserveCommit(a) \/ DebitCommit(a)
                          \/ ReleaseCommit(a) \/ RecordMembership(a, TRUE)
  \/ \E w \in WdIds, amount \in WithdrawAmounts : WithdrawClick(w, "A", amount)
  \/ \E w \in WdIds : WithdrawSettings(w) \/ WithdrawDebitCommit(w) \/ WithdrawRecord(w, TRUE)

SpecOneUser == Init /\ [][NextOneUser]_vars

\* joins only, on tournaments that exist, with a store that answers every request
InitOpen == Init /\ \A t \in TIds : tournaments[t].exists

NextJoin == \E a \in JoinIds : JoinStep(a)

SpecJoin == InitOpen /\ [][NextJoin]_vars

\* the scenario: one tournament with one slot at 100 (either id), users A and B
\* with 150 each, one join each on that tournament, in either order
InitScenario ==
  /\ users = [u \in Users |-> [exists |-> TRUE, isBlocked |-> FALSE, balance |-> 150]]
  /\ \E s \in TIds : tournaments = [t \in TIds |-> IF t = s
        THEN [exists |-> TRUE, joinedCount |-> 0, maxSlots |-> 1, entryFee |-> 100]
        ELSE NoTournament]
  /\ tournamentJoins = {}
  /\ walletHistory = [u \in Users |-> <<>>]
  /\ withdrawals = [w \in WdIds |-> NoWithdrawal]
  /\ appSettings = [minWithdraw |-> 100, withdrawFeePercent |-> 2]
  /\ join = [a \in JoinIds |-> IdleJoin]
  /\ wd = [w \in WdIds |-> IdleWd]

\* the two clicks: each user once, on the scenario's tournament
ScenarioClick(a) ==
  \E u \in Users, t \in TIds :
    /\ tournaments[t].exists
    /\ \A b \in {1, 2} : join[b].uid # u
    /\ JoinClick(a, u, t, 100)

NextScenario ==
  \/ \E a \in {1, 2} : ScenarioClick(a)
  \/ \E a \in {1, 2} : JoinFetchUser(a)
  \/ \E a \in {1, 2} : ReserveCommit(a)
  \/ \E a \in {1, 2} : DebitCommit(a)
  \/ \E a \in {1, 2} : RecordMembership(a, TRUE)

SpecScenario == InitScenario /\ [][NextScenario]_vars

\* joins and the admin's block / unblock clicks, with a store that answers
\* every request
NextJoinAdmin ==
  \/ \E a \in JoinIds : JoinStep(a)
  \/ \E u \in Users : ToggleBlock(u)

SpecJoinAdmin == Init /\ [][NextJoinAdmin]_vars

\* the withdrawal scenario: minWithdraw 500 and a fee of 2 or 3 percent; user A,
\* with a balance that covers one, two or none of the amounts typed in, sends
\* withdrawal requests while one join of A debits the same wallet
ScenarioAmounts == {450, 1000, 1050}

InitWithdraw ==
  /\ \E b \in {900, 1000, 2100} :
       users = [u \in Users |-> IF u = "A"
                  THEN [exists |-> TRUE, isBlocked |-> FALSE, balance |-> b] ELSE NoUser]
  /\ tournaments = [t \in TIds |-> OpenTournament(MaxSlots)]
  /\ tournamentJoins = {}
  /\ walletHistory = [u \in Users |-> <<>>]
  /\ withdrawals = [w \in WdIds |-> NoWithdrawal]
  /\ \E p \in {2, 3} : appSettings = [minWithdraw |-> 500, withdrawFeePercent |-> p]
  /\ join = [a \in JoinIds |-> IdleJoin]
  /\ wd = [w \in WdIds |-> IdleWd]

NextWithdraw ==
  \/ \E w \in WdIds, amount \in ScenarioAmounts : WithdrawClick(w, "A", amount)
  \/ \E w \in WdIds : WithdrawSettings(w)
  \/ \E w \in WdIds : WithdrawDebitCommit(w)
  \/ \E w \in WdIds : WithdrawRecord(w, TRUE)
  \/ JoinClick(1, "A", "t1", CardFee)
  \/ JoinFetchUser(1)
  \/ ReserveCommit(1)
  \/ DebitCommit(1)
  \/ RecordMembership(1, TRUE)

SpecWithdraw == InitWithdraw /\ [][NextWithdraw]_vars

\* the revert transaction applied once more for an attempt whose revert has
\* already undone its increment
ReleaseAgain(a) ==
  /\ join[a].pc = "done" /\ join[a].toast = "Unable to deduct fee." /\ join[a].inc = 0
  /\ LET t == join[a].tid
         c == tournaments[t].joinedCount
     IN /\ tournaments' = SetJoinedCount(tournaments, t, ReleaseUpdate(c))
        /\ join' = [join EXCEPT ![a].inc = @ + ReleaseUpdate(c) - Or(c, 0)]
  /\ UNCHANGED <<users, tournamentJoins, walletHistory, withdrawals, appSettings, wd>>

\* the revert on every starting value: joins on t1, whose joinedCount starts
\* absent, at 0 or above with free slots left; debits may fail, and the revert
\* of a failed join may be applied a second time
StartCounts == {NULL} \cup (0..MaxSlots)

InitRelease ==
  /\ users = [u \in Users |-> [exists |-> TRUE, isBlocked |-> FALSE, balance |-> 150]]
  /\ \E c \in StartCounts :
       tournaments = [t \in TIds |-> IF t = "t1"
         THEN [exists |-> TRUE, joinedCount |-> c, maxSlots |-> MaxSlots + 2, entryFee |-> CardFee]
         ELSE NoTournament]
  /\ tournamentJoins = {}
  /\ walletHistory = [u \in Users |-> <<>>]
  /\ withdrawals = [w \in WdIds |-> NoWithdrawal]
  /\ appSettings = [minWithdraw |-> 100, withdrawFeePercent |-> 2]
  /\ join = [a \in JoinIds |-> IdleJoin]
  /\ wd = [w \in WdIds |-> IdleWd]

NextRelease ==
  \/ \E a \in JoinIds, u \in Users : JoinClick(a, u, "t1", CardFee)
  \/ \E a \in JoinIds : JoinFetchUser(a)
  \/ \E a \in JoinIds : ReserveCommit(a)
  \/ \E a \in JoinIds : DebitCommit(a)
  \/ \E a \in JoinIds : DebitError(a)
  \/ \E a \in JoinIds : ReleaseCommit(a)
  \/ \E a \in JoinIds : RecordMembership(a, TRUE)
  \/ \E a \in JoinIds : ReleaseAgain(a)

SpecRelease == InitRelease /\ [][NextRelease]_vars

\* the store answering attempt a's pending request
JoinProgress(a) ==
  \/ JoinFetchUser(a)
  \/ ReserveCommit(a)
  \/ DebitCommit(a)
  \/ ReleaseCommit(a)
  \/ RecordMembership(a, TRUE)

\* joins with store errors, the store being available again in the end: a
\* request that stays pending is eventually answered
FairSpecJoinFault ==
  /\ Init /\ [][NextJoinFault]_vars
  /\ \A a \in JoinIds : WF_vars(JoinProgress(a))

\* joins on tournaments that exist, the store answering every request: fair
\* scheduling of the attempts
FairSpecJoin ==
  /\ InitOpen /\ [][NextJoin]_vars
  /\ \A a \in JoinIds : WF_vars(JoinProgress(a))

\* the withdrawal form with its text input: in this specification amounts are
\* counted in halves of the smallest currency unit, so that what parseFloat
\* makes of "100.5" is a number of the model.  Nothing is scaled wrongly: the
\* fee percentage is 0 (fee 0), and the comparisons and the subtraction of
\* requestWithdrawal and joinTournament do not depend on the unit.
FormTexts == {"abc", "99.5", "100", "100.5"}

\* parseFloat(text), in halves; NaN takes the branch of 0 (!amount)
parseFloat(text) ==
  CASE text = "abc" -> 0
    [] text = "99.5" -> 199
    [] text = "100" -> 200
    [] text = "100.5" -> 201

\* user A holds 250 units, minWithdraw is 100 units, the entry fee CardFee units
InitForm ==
  /\ users = [u \in Users |-> IF u = "A"
                THEN [exists |-> TRUE, isBlocked |-> FALSE, balance |-> 2 * 250] ELSE NoUser]
  /\ tournaments = [t \in TIds |->
       [exists |-> TRUE, joinedCount |-> 0, maxSlots |-> MaxSlots, entryFee |-> 2 * CardFee]]
  /\ tournamentJoins = {}
  /\ walletHistory = [u \in Users |-> <<>>]
  /\ withdrawals = [w \in WdIds |-> NoWithdrawal]
  /\ appSettings = [minWithdraw |-> 2 * 100, withdrawFeePercent |-> 0]
  /\ join = [a \in JoinIds |-> IdleJoin]
  /\ wd = [w \in WdIds |-> IdleWd]

NextForm ==
  \/ \E w \in WdIds, text \in FormTexts : WithdrawClick(w, "A", parseFloat(text))
  \/ \E w \in WdIds : WithdrawSettings(w)
  \/ \E w \in WdIds : WithdrawDebitCommit(w)
  \/ \E w \in WdIds : WithdrawRecord(w, TRUE)
  \/ \E a \in JoinIds, t \in TIds : JoinClick(a, "A", t, 2 * CardFee)
  \/ \E a \in JoinIds : JoinFetchUser(a)
  \/ \E a \in JoinIds : ReserveCommit(a)
  \/ \E a \in JoinIds : DebitCommit(a)
  \/ \E a \in JoinIds : ReleaseCommit(a)
  \/ \E a \in JoinIds : RecordMembership(a, TRUE)

SpecForm == InitForm /\ [][NextForm]_vars

\* the administrator edits the entry fee of a tournament (the Edit button of the
\* admin panel, whose handler is not part of the sources)
FeeChoices == {CardFee, CardFee + 50}

EditEntryFee(t, fee) ==
  /\ tournaments[t].exists /\ tournaments[t].entryFee # fee
  /\ tournaments' = [tournaments EXCEPT ![t].entryFee = fee]
  /\ UNCHANGED <<users, tournamentJoins, walletHistory, withdrawals, appSettings, join, wd>>

\* joins from cards that show the fee stored at the moment of the click, while
\* the administrator edits fees; the store answers every request
NextFee ==
  \/ \E a \in JoinIds, u \in Users, t \in TIds : JoinClick(a, u, t, tournaments[t].entryFee)
  \/ \E a \in JoinIds : JoinFetchUser(a)
  \/ \E a \in JoinIds : ReserveCommit(a)
  \/ \E a \in JoinIds : DebitCommit(a)
  \/ \E a \in JoinIds : ReleaseCommit(a)
  \/ \E a \in JoinIds : RecordMembership(a, TRUE)
  \/ \E t \in TIds, fee \in FeeChoices : EditEntryFee(t, fee)

SpecFee == InitOpen /\ [][NextFee]_vars

\* --------------------------------------------------------------- measures
Joined(a) == join[a].toast = "Joined successfully!"

\* a join attempt between its reservation and its terminal outcome
InFlight(a) == join[a].pc \in {"reserve", "debit", "release", "record"}

Members(t) == {u \in Users : <<t, u>> \in tournamentJoins}

AllDone == /\ \A a \in JoinIds : join[a].pc \in {"idle", "done"}
           /\ \A w \in WdIds : wd[w].pc \in {"idle", "done"}

RECURSIVE SumOver(_, _, _)
SumOver(f, field, S) ==
  IF S = {} THEN 0
  ELSE LET x == CHOOSE y \in S : TRUE
       IN (IF field = "paid" THEN f[x].paid ELSE f[x].inc) + SumOver(f, field, S \ {x})

\* what the attempts of user u have debited from the wallet
PaidBy(u) == SumOver(join, "paid", {a \in JoinIds : join[a].uid = u})
             + SumOver(wd, "paid", {w \in WdIds : wd[w].uid = u})

RECURSIVE HistoryNet(_)
HistoryNet(h) ==
  IF h = <<>> THEN 0
  ELSE (IF Head(h).type \in {"join_debit", "withdrawal_debit"}
          THEN Head(h).amount ELSE 0 - Head(h).amount) + HistoryNet(Tail(h))

\* ---------------------------------------------------------------- claims

\* C1: a tournament that exists with maxSlots = N never has joinedCount > N,
\* and never more than N attempts on it ended with the success outcome.
C1_Capacity ==
  \A t \in TIds :
    tournaments[t].exists /\ tournaments[t].maxSlots # NULL =>
      /\ Count(tournaments[t]) <= tournaments[t].maxSlots
      /\ Cardinality({a \in JoinIds : join[a].tid = t /\ Joined(a)}) <= tournaments[t].maxSlots

\* C1 witness: on t1 one attempt joined and a competing one found the slots full
C1_Witness ==
  \E a, b \in JoinIds :
    /\ join[a].tid = "t1" /\ join[b].tid = "t1"
    /\ Joined(a) /\ join[a].pc = "done"
    /\ join[b].toast = "Slots are full."
    /\ tournaments["t1"].joinedCount = tournaments["t1"].maxSlots

\* C2: whenever no attempt on a tournament is between its reservation and its
\* terminal outcome, joinedCount equals the number of its membership records.
C2_CountEqualsMembers ==
  \A t \in TIds :
    (\A a \in JoinIds : join[a].tid = t => ~InFlight(a)) =>
      Count(tournaments[t]) = Cardinality(Members(t))

\* C3: the balance of a user record is never negative.
C3_BalanceNonNegative ==
  \A u \in Users : users[u].exists => users[u].balance >= 0

\* C3 witness: a join and a withdrawal of the same user have both debited the
\* wallet, and a further debit of that wallet was refused by its transaction
C3_Witness ==
  \E a, b \in JoinIds, w \in WdIds :
    /\ join[a].uid = wd[w].uid /\ join[b].uid = wd[w].uid
    /\ join[a].paid > 0 /\ wd[w].paid > 0
    /\ join[b].toast = "Unable to deduct fee."
    /\ users[wd[w].uid].balance < join[b].fee

\* C4: once all attempts have finished, the attempts of one user on one
\* tournament have debited at most one entry fee and account for at most one
\* unit of joinedCount.
C4_NoDuplicateJoin ==
  AllDone =>
    \A u \in Users, t \in TIds :
      LET S == {a \in JoinIds : join[a].uid = u /\ join[a].tid = t}
      IN /\ SumOver(join, "paid", S) <= CardFee
         /\ SumOver(join, "inc", S) <= 1

\* C5: an attempt whose debit failed after its reservation committed has, once
\* finished, no net effect on joinedCount, debited nothing and wrote no
\* membership record.
C5_FailedDebitCompensated ==
  \A a \in JoinIds :
    join[a].pc = "done" /\ join[a].toast = "Unable to deduct fee." =>
      join[a].inc = 0 /\ join[a].paid = 0 /\ ~join[a].wrote

\* C6: every membership record was written by an attempt of that user on that
\* tournament whose increment of joinedCount and debit of the entry fee both
\* committed.
C6_MembershipAfterBoth ==
  \A m \in tournamentJoins :
    \E a \in JoinIds :
      /\ join[a].tid = m[1] /\ join[a].uid = m[2] /\ join[a].wrote
      /\ join[a].inc = 1 /\ join[a].paid = join[a].fee

\* C7: in the scenario, once both joins have finished, exactly one user has
\* balance 50, a membership record and the success outcome, the other has balance
\* 150, no membership record and the slots-full outcome, and joinedCount is 1.
C7_OneWinner ==
  join[1].pc = "done" /\ join[2].pc = "done" =>
    \E win, lose \in {1, 2} :
      LET t == join[win].tid
      IN /\ win # lose
         /\ join[lose].tid = t /\ tournaments[t].joinedCount = 1
         /\ Joined(win) /\ users[join[win].uid].balance = 50
         /\ <<t, join[win].uid>> \in tournamentJoins
         /\ join[lose].toast = "Slots are full." /\ users[join[lose].uid].balance = 150
         /\ <<t, join[lose].uid>> \notin tournamentJoins

\* C7 witness: both joins have finished after competing for the slot, and the
\* one that clicked second is the winner
C7_Witness ==
  /\ join[1].pc = "done" /\ join[2].pc = "done"
  /\ join[1].uid # join[2].uid
  /\ Joined(2) /\ join[1].toast = "Slots are full."

\* C8: an attempt whose reservation ran on a missing tournament record does not
\* go on to the debit, debits nothing and writes no membership record.
C8_NotFoundStops ==
  \A a \in JoinIds :
    join[a].notFound =>
      join[a].pc \notin {"debit", "record"} /\ join[a].paid = 0 /\ ~join[a].wrote

\* C9: when nothing is in flight, the debit entries minus the credit entries of
\* a user's wallet history add up to what has been debited from the wallet.
C9_HistoryMatchesDebits ==
  AllDone => \A u \in Users : HistoryNet(walletHistory[u]) = PaidBy(u)

\* C10: the balance of an existing user record changes only in the commit of a
\* balance transaction; saveUserProfile on an existing record leaves it unchanged.
C10_BalanceOnlyByTransaction ==
  [][\A u \in Users :
       users[u].exists /\ users'[u].balance # users[u].balance =>
         \/ \E a \in JoinIds : DebitCommit(a)
         \/ \E w \in WdIds : WithdrawDebitCommit(w)]_vars

\* the three eligibility checks, on the user record as the attempt reads it
Ineligible(a) ==
  LET userData == users[join[a].uid]
  IN \/ ~userData.exists
     \/ userData.isBlocked
     \/ Or(userData.balance, 0) < join[a].fee

EligibilityToasts == {"Profile not set up.", "You are blocked.", "Insufficient wallet balance."}

\* C11: an attempt whose read of the user record finds it absent, blocked or
\* with a balance below the entry fee ends there with the matching reason: the
\* step writes nothing to the store and no reservation transaction is started.
C11_RejectedWritesNothing ==
  [][\A a \in JoinIds :
       join[a].pc = "fetch" /\ JoinFetchUser(a) /\ Ineligible(a) =>
         /\ join'[a].pc = "done" /\ join'[a].toast \in EligibilityToasts
         /\ join'[a].inc = 0 /\ join'[a].paid = 0 /\ ~join'[a].wrote
         /\ store' = store]_vars

\* C11 witness: after a paid join left the user's balance below the fee, another
\* attempt of that user was rejected by the balance check
C11_Witness ==
  \E a, b \in JoinIds :
    /\ join[a].uid = join[b].uid /\ join[a].paid > 0 /\ join[a].wrote
    /\ join[b].toast = "Insufficient wallet balance." /\ join[b].pc = "done"
    /\ users[join[b].uid].balance < join[b].fee

\* the step of attempt a in which its reservation's update function runs on the
\* tournament record: when the transaction is started, or again after a conflict
ReserveRuns(a) ==
  \/ join[a].pc = "fetch" /\ JoinFetchUser(a) /\ ~Ineligible(a)
  \/ join[a].pc = "reserve" /\ ReserveCommit(a) /\ tournaments[join[a].tid] # join[a].snapT

\* the record exists with joinedCount >= maxSlots
IsFull(rec) == rec.exists /\ JsGE(rec.joinedCount, rec.maxSlots)

\* C12: a reservation whose update function finds joinedCount >= maxSlots ends
\* the attempt with 'Slots are full.' and writes nothing: joinedCount, every
\* balance and the membership records are unchanged, and the attempt, which has
\* debited and written nothing, takes no further step.
C12_FullAbortsClean ==
  [][\A a \in JoinIds :
       /\ ReserveRuns(a) /\ IsFull(tournaments[join[a].tid]) =>
            /\ join'[a].pc = "done" /\ join'[a].toast = "Slots are full."
            /\ join'[a].inc = 0 /\ join'[a].paid = 0 /\ ~join'[a].wrote
            /\ store' = store
       /\ join[a].toast = "Slots are full." => join'[a] = join[a]]_vars

\* C12 witness: an attempt ended with 'Slots are full.', its user's balance
\* untouched, while an attempt of the other user that clicked later holds the
\* last slot of that tournament
C12_Witness ==
  \E a, b \in JoinIds :
    /\ join[a].toast = "Slots are full." /\ join[a].pc = "done"
    /\ join[b].tid = join[a].tid /\ join[b].uid # join[a].uid /\ join[b].wrote
    /\ join[b].pc = "done" /\ b > a
    /\ tournaments[join[a].tid].joinedCount = tournaments[join[a].tid].maxSlots
    /\ users[join[a].uid].exists /\ users[join[a].uid].balance = 150

\* a withdrawal request that has shown 'Withdraw requested.' and whose record
\* write the store has answered
Withdrawn(w) == wd[w].pc = "done" /\ wd[w].toast = "Withdraw requested."

WithdrawRuns(w) ==
  \/ /\ wd[w].pc = "settings" /\ WithdrawSettings(w)
     /\ wd[w].amount >= Or(appSettings.minWithdraw, 0)
  \/ /\ wd[w].pc = "debit" /\ WithdrawDebitCommit(w)
     /\ users[wd[w].uid].balance # wd[w].snapN

WithdrawRejections == {"Minimum withdraw", "Insufficient balance."}

\* C14: a request with amount < minWithdraw ends at the settings read, before
\* any transaction is started, and a request whose transaction finds balance <
\* amount ends there; either step leaves every balance and the withdrawal
\* records unchanged, and a rejected request has debited nothing, has no record
\* and takes no further step.
C14_WithdrawalRejected ==
  /\ [](\A w \in WdIds :
          wd[w].toast \in WithdrawRejections =>
            wd[w].pc = "done" /\ wd[w].paid = 0 /\ ~withdrawals[w].exists)
  /\ [][\A w \in WdIds :
          /\ /\ wd[w].pc = "settings" /\ WithdrawSettings(w)
             /\ wd[w].amount < appSettings.minWithdraw
             => wd'[w].toast = "Minimum withdraw" /\ store' = store
          /\ /\ WithdrawRuns(w)
             /\ Or(users[wd[w].uid].balance, 0) < wd[w].amount
             => wd'[w].toast = "Insufficient balance." /\ store' = store
          /\ wd[w].toast \in WithdrawRejections => wd'[w] = wd[w]]_vars

\* C14 witness: a request for 1000 on a wallet of 1000 was rejected for
\* insufficient balance because a join of the same user debited its fee first
C14_Witness ==
  \E w \in WdIds :
    /\ wd[w].toast = "Insufficient balance." /\ wd[w].amount = 1000
    /\ join[1].paid = CardFee
    /\ users["A"].balance = 1000 - CardFee

\* C15: the reverts of a failed join never take joinedCount below the value it
\* had before that join's reservation (the attempt's net effect on joinedCount
\* is never negative), and joinedCount is never below 0, also when the revert
\* is applied twice and whatever joinedCount started from.
C15_ReleaseIdempotent ==
  /\ \A a \in JoinIds : join[a].inc >= 0
  /\ \A t \in TIds : Count(tournaments[t]) >= 0

\* C16: an attempt that has issued the revert of its reservation eventually
\* finishes with the reservation undone (no net effect on joinedCount), also
\* when a revert request ends with a store error.
C16_CompensationRetried ==
  \A a \in JoinIds :
    (join[a].pc = "release") ~> (join[a].pc = "done" /\ join[a].inc = 0)

\* C17: within one attempt the debit transaction is started only in the step
\* that commits the reservation, the membership write is issued only in the
\* step that commits the debit of the fee, the revert is issued only when the
\* debit has failed (after the committed reservation, nothing debited), and the
\* membership record is written only by the pending membership write.
C17_TotallyOrdered ==
  /\ [](\A a \in JoinIds :
          /\ join[a].pc \in {"debit", "record"} => join[a].inc = 1 \/ join[a].notFound
          /\ join[a].pc = "record" \/ join[a].wrote => join[a].paid = join[a].fee)
  /\ [][\A a \in JoinIds :
          LET j == join[a]
              k == join'[a]
          IN /\ k.pc = "debit" /\ j.pc # "debit" =>
                  j.pc = "reserve" /\ tournaments[j.tid] = j.snapT
             /\ k.pc = "record" /\ j.pc # "record" =>
                  /\ j.pc = "debit" /\ users[j.uid].balance = j.snapN
                  /\ users'[j.uid].balance = users[j.uid].balance - j.fee
             /\ k.pc = "release" /\ j.pc # "release" =>
                  /\ \/ j.pc = "debit"
                     \/ j.pc = "reserve" /\ tournaments[j.tid] = j.snapT
                  /\ k.paid = 0 /\ users' = users
             /\ k.wrote /\ ~j.wrote => j.pc = "record"]_vars

\* C17 witness: one attempt went through reservation, debit and membership
\* write, another through reservation, failed debit and revert
C17_Witness ==
  \E a, b \in JoinIds :
    /\ join[a].pc = "done" /\ join[a].wrote /\ join[a].inc = 1 /\ join[a].paid = CardFee
    /\ join[b].pc = "done" /\ join[b].toast = "Unable to deduct fee." /\ join[b].inc = 0
    /\ ~join[b].notFound

\* the outcomes joinTournament reports when the store answers every request
Outcomes == EligibilityToasts \cup
            {"Slots are full.", "Unable to deduct fee.", "Joined successfully!"}

\* C18: with the store answering every request and the attempts scheduled
\* fairly, every attempt that was started eventually finishes; a finished
\* attempt has one outcome, which never changes once shown: success with its
\* membership record written, or a rejection with its reason; and a
\* reservation or debit that meets a conflict runs its update function again
\* on the new value, ending the attempt only if that run itself aborts.
C18_EveryAttemptEnds ==
  /\ \A a \in JoinIds : (join[a].pc # "idle") ~> (join[a].pc = "done")
  /\ [](\A a \in JoinIds :
          join[a].pc = "done" =>
            /\ join[a].toast \in Outcomes
            /\ Joined(a) <=> join[a].wrote /\ <<join[a].tid, join[a].uid>> \in tournamentJoins)
  /\ [][\A a \in JoinIds :
          LET j == join[a]
              k == join'[a]
          IN /\ j.toast # "" => k.toast = j.toast
             /\ j.pc = "reserve" /\ ReserveCommit(a) /\ tournaments[j.tid] # j.snapT =>
                  IF IsFull(tournaments[j.tid])
                    THEN k.pc = "done" /\ k.toast = "Slots are full."
                    ELSE k.pc = "reserve" /\ k.snapT = tournaments[j.tid] /\ k.toast = ""
             /\ j.pc = "debit" /\ DebitCommit(a) /\ users[j.uid].balance # j.snapN =>
                  IF Or(users[j.uid].balance, 0) >= j.fee
                    THEN k.pc = "debit" /\ k.snapN = users[j.uid].balance /\ k.toast = ""
                    ELSE k.pc = "release" /\ k.toast = "Unable to deduct fee."]_vars

\* C18 witness: two attempts of one user both got past the balance check and
\* both have finished: one joined, the other's debit found the wallet already
\* lowered by the first and its reservation was reverted
C18_Witness ==
  \E a, b \in JoinIds :
    /\ join[a].pc = "done" /\ join[b].pc = "done"
    /\ join[a].uid = join[b].uid
    /\ Joined(a) /\ join[b].toast = "Unable to deduct fee." /\ join[b].inc = 0

\* C19: an attempt that showed 'Joined successfully!' and whose membership
\* write the store has answered has its membership record in the store.
C19_SuccessMeansMember ==
  \A a \in JoinIds :
    Joined(a) /\ join[a].pc = "done" => <<join[a].tid, join[a].uid>> \in tournamentJoins

\* C20: a block / unblock click changes the isBlocked flag of its user and
\* nothing else: that user's balance, the other user records, the tournament
\* records and every other path stay as they are, the attempts in flight keep
\* their snapshots, and a debit that commits afterwards leaves the flag alone.
C20_BlockWritesFlagOnly ==
  [][/\ \A u \in Users :
          ToggleBlock(u) =>
            /\ users'[u] = [users[u] EXCEPT !.isBlocked = ~users[u].isBlocked]
            /\ \A v \in Users \ {u} : users'[v] = users[v]
            /\ <<tournaments, tournamentJoins, walletHistory, withdrawals, appSettings>>' =
                 <<tournaments, tournamentJoins, walletHistory, withdrawals, appSettings>>
            /\ join' = join /\ wd' = wd
     /\ \A a \in JoinIds :
          join[a].pc = "debit" /\ join'[a].pc = "record" =>
            /\ users'[join[a].uid].isBlocked = users[join[a].uid].isBlocked
            /\ users'[join[a].uid].balance = users[join[a].uid].balance - join[a].fee]_vars

\* C20 witness: the user of an attempt whose debit is in flight has been blocked
\* (the click came after the attempt's eligibility check); the balance is the
\* one the debit's update function ran on
C20_Witness ==
  \E a \in JoinIds :
    /\ join[a].pc = "debit"
    /\ users[join[a].uid].isBlocked
    /\ users[join[a].uid].balance = join[a].snapN

\* C21: starting from a whole number of currency units, the balance is a whole
\* number of currency units after any sequence of joins and withdrawals (with
\* amounts counted in halves: the balance is even).
C21_BalanceWholeUnits ==
  \A u \in Users : users[u].exists => users[u].balance % 2 = 0

\* the entry fees of the attempts in S
RECURSIVE SumFees(_)
SumFees(S) ==
  IF S = {} THEN 0
  ELSE LET a == CHOOSE x \in S : TRUE IN join[a].fee + SumFees(S \ {a})

\* the amounts of the withdrawal records in S
RECURSIVE SumAmounts(_)
SumAmounts(S) ==
  IF S = {} THEN 0
  ELSE LET w == CHOOSE x \in S : TRUE IN withdrawals[w].amount + SumAmounts(S \ {w})

C23_DebitsStoredFee ==
  [][\A a \in JoinIds :
       LET j == join[a]
           k == join'[a]
       IN /\ j.pc = "reserve" /\ k.pc = "debit" => k.fee = tournaments[j.tid].entryFee
          /\ j.pc = "debit" /\ k.pc = "record" =>
               users'[j.uid].balance = users[j.uid].balance - j.fee]_vars

\* C24: the reservation of an attempt whose user is blocked at that moment does
\* not commit into a debit: the step that commits the reservation and starts
\* the debit is never taken while the user's isBlocked flag is set, so such an
\* attempt cannot end with a debit and a membership record.
C24_BlockedNeverJoins ==
  [][\A a \in JoinIds :
       join[a].pc = "reserve" /\ join'[a].pc = "debit" => ~users[join[a].uid].isBlocked]_vars

====
